---- MODULE Spec2Model ----
(***************************************************************************)
(* Model of plugins/filter/ldif.py: the LDIF filters from_ldif, to_ldif    *)
(* and ldif_sort, with the DN comparison function _dn_compare and the      *)
(* weighted-value pattern _WEIGHTED_ATTR.                                  *)
(*                                                                         *)
(* A Python str is a sequence of one-character strings.  A raised          *)
(* exception is a result record whose err field names it.                  *)
(***************************************************************************)
EXTENDS Integers, Sequences, FiniteSets, TLC

VARIABLES
    pc,        \* position of the caller: which filter has been applied
    value,     \* SpecWeight: the RDN value handed to _WEIGHTED_ATTR
    match,     \* SpecWeight: the result of _WEIGHTED_ATTR.fullmatch(value)
    rec1,      \* SpecCompare: first record
    rec2,      \* SpecCompare: second record
    mix,       \* SpecCompare, SpecSort: allow_mix_weighted
    r12,       \* SpecCompare: _dn_compare(rec1, rec2, mix)
    data,      \* SpecSort: the list of records given to ldif_sort
    cmat,      \* SpecSort: _dn_compare over every pair of data
    out,       \* SpecCompare, SpecSort: result of ldif_sort
    out2,      \* SpecSort: result of ldif_sort applied to out
    records,   \* SpecCodec: the list of records given to to_ldif
    ldif,      \* SpecCodec: result of to_ldif(records)
    parsed     \* SpecCodec: result of from_ldif(ldif)

vars == <<pc, value, match, rec1, rec2, mix, r12, data, cmat, out, out2,
          records, ldif, parsed>>

\* Value of a variable the running specification does not use.
Null == "null"

(***************************************************************************)
(* Python strings                                                          *)
(***************************************************************************)

\* The characters of the model, in increasing code point order.
Alphabet ==
    << "\n", " ", "+", ",", "-",
       "0", "1", "2", "3", "4", "5", "6", "7", "8", "9", ":", "=",
       "C", "D", "N", "O", "U",
       "a", "b", "c", "d", "e", "n", "o", "u", "v", "x", "z", "{", "}" >>

Chars == {Alphabet[i] : i \in DOMAIN Alphabet}

\* ord(c), up to an order-preserving renumbering.
Ord == [c \in Chars |-> CHOOSE i \in DOMAIN Alphabet : Alphabet[i] = c]

\* The decimal digits, by value.
DigitSeq == <<"0", "1", "2", "3", "4", "5", "6", "7", "8", "9">>

Digits == {DigitSeq[i] : i \in DOMAIN DigitSeq}

DigitVal == [c \in Digits |-> (CHOOSE i \in DOMAIN DigitSeq : DigitSeq[i] = c) - 1]

\* str.lower() on one character.
LowerChar(c) ==
    CASE c = "C" -> "c" [] c = "D" -> "d" [] c = "N" -> "n"
      [] c = "O" -> "o" [] c = "U" -> "u" [] OTHER -> c

\* str.lower()
lower(s) == [i \in DOMAIN s |-> LowerChar(s[i])]

\* Three-way lexicographic comparison of two str by code point:
\* -1 for s < t, 0 for s == t, 1 for s > t.
RECURSIVE StrCmp(_, _)
StrCmp(s, t) ==
    IF s = <<>> THEN (IF t = <<>> THEN 0 ELSE -1)
    ELSE IF t = <<>> THEN 1
    ELSE IF Ord[s[1]] < Ord[t[1]] THEN -1
    ELSE IF Ord[s[1]] > Ord[t[1]] THEN 1
    ELSE StrCmp(Tail(s), Tail(t))

\* int(w) for w matching -?\d+
RECURSIVE DigitsToInt(_, _)
DigitsToInt(w, acc) ==
    IF w = <<>> THEN acc ELSE DigitsToInt(Tail(w), 10 * acc + DigitVal[w[1]])

int(w) == IF w[1] = "-" THEN 0 - DigitsToInt(Tail(w), 0) ELSE DigitsToInt(w, 0)

\* s.split(sep) for a one-character separator; the empty string gives no piece
\* (ldap.dn.explode_dn("") is []).
Split(s, sep) ==
    IF s = <<>> THEN <<>>
    ELSE LET at == {i \in DOMAIN s : s[i] = sep}
             \* place of the j-th separator; 0 and Len(s) + 1 bound the string
             SepAt(j) == IF j = 0 THEN 0
                         ELSE IF j > Cardinality(at) THEN Len(s) + 1
                         ELSE CHOOSE i \in at : Cardinality({p \in at : p < i}) = j - 1
         IN  [j \in 1..(Cardinality(at) + 1) |->
                 SubSeq(s, SepAt(j - 1) + 1, SepAt(j) - 1)]

\* Index of the first occurrence of c in s, 0 when there is none (str.find + 1).
IndexOf(s, c) ==
    IF \E i \in DOMAIN s : s[i] = c
    THEN CHOOSE i \in DOMAIN s : s[i] = c /\ \A j \in 1..(i - 1) : s[j] # c
    ELSE 0

(***************************************************************************)
(* _WEIGHTED_ATTR = re.compile(r"^\{(-?\d+)\}(.+)$"), used with fullmatch  *)
(***************************************************************************)

\* Last index of the run of digits of v that starts at index i (i - 1 when
\* v[i] is no digit): the greedy \d+.
RECURSIVE DigitRunEnd(_, _)
DigitRunEnd(v, i) ==
    IF i <= Len(v) /\ v[i] \in Digits THEN DigitRunEnd(v, i + 1) ELSE i - 1

\* First index of the digits of v: after the brace and an optional minus.
DigitsStart(v) == IF Len(v) >= 2 /\ v[2] = "-" THEN 3 ELSE 2

\* A mutant: the remainder group is (.*), which also matches nothing.
MatchAt_star(v, ds, de) ==
    IF /\ Len(v) >= 1 /\ v[1] = "{"
       /\ de >= ds
       /\ de + 1 <= Len(v) /\ v[de + 1] = "}"
       /\ \A i \in (de + 2)..Len(v) : v[i] # "\n"
    THEN [matched |-> TRUE, w |-> SubSeq(v, 2, de), rest |-> SubSeq(v, de + 2, Len(v))]
    ELSE [matched |-> FALSE, w |-> <<>>, rest |-> v]

\* The match of v against \{(-?\d+)\}(.+), the digits being v[ds..de]: a
\* closing brace follows the digits, and at least one character that is no
\* line break follows the brace.
MatchAt(v, ds, de) ==
    IF /\ Len(v) >= 1 /\ v[1] = "{"
       /\ de >= ds
       /\ de + 1 <= Len(v) /\ v[de + 1] = "}"
       /\ de + 2 <= Len(v)
       /\ \A i \in (de + 2)..Len(v) : v[i] # "\n"
    THEN [matched |-> TRUE, w |-> SubSeq(v, 2, de), rest |-> SubSeq(v, de + 2, Len(v))]
    ELSE [matched |-> FALSE, w |-> <<>>, rest |-> v]

\* _WEIGHTED_ATTR.fullmatch(v): matched, and groups() as (w, rest).
WEIGHTED_ATTR_fullmatch(v) == MatchAt(v, DigitsStart(v), DigitRunEnd(v, DigitsStart(v)))

(***************************************************************************)
(* SpecWeight: weight extraction applied to every short value              *)
(***************************************************************************)

\* Longest value handed to the pattern.
MaxValLen == 4

\* The characters values are made of.
ValueChars == {"{", "}", "-", "3", "a", "\n"}

RECURSIVE StringsUpTo(_, _)
StringsUpTo(cs, n) ==
    IF n = 0 THEN {<<>>}
    ELSE LET shorter == StringsUpTo(cs, n - 1)
         IN  shorter \cup {Append(s, c) : s \in shorter, c \in cs}

InitWeight ==
    /\ pc = "start"
    /\ value \in StringsUpTo(ValueChars, MaxValLen)
    /\ match = Null
    /\ rec1 = Null /\ rec2 = Null /\ mix = Null /\ r12 = Null
    /\ data = Null /\ cmat = Null /\ out = Null /\ out2 = Null
    /\ records = Null /\ ldif = Null /\ parsed = Null

\* v1w = _WEIGHTED_ATTR.fullmatch(dn1_val)
ExtractWeight ==
    /\ pc = "start"
    /\ match' = WEIGHTED_ATTR_fullmatch(value)
    /\ pc' = "matched"
    /\ UNCHANGED <<value, rec1, rec2, mix, r12, data, cmat, out, out2,
                   records, ldif, parsed>>

NextWeight == ExtractWeight

SpecWeight == InitWeight /\ [][NextWeight]_vars

(***************************************************************************)
(* DN decomposition (ldap.dn.explode_dn, ldap.dn.str2dn) for DNs without   *)
(* escapes, quotes or spaces                                               *)
(***************************************************************************)

\* An attribute=value pair of an RDN as str2dn gives it: (attribute, value),
\* split at the first "=".
ParseAVA(s) ==
    LET i == IndexOf(s, "=")
    IN  <<SubSeq(s, 1, i - 1), SubSeq(s, i + 1, Len(s))>>

\* ldap.dn.explode_dn(dn): the RDN strings of dn, left to right.
explode_dn(dn) == Split(dn, ",")

\* ldap.dn.str2dn(s): one list of (attribute, value) pairs per RDN of s.
str2dn(s) ==
    LET rdns == Split(s, ",")
    IN  [i \in DOMAIN rdns |->
            LET avas == Split(rdns[i], "+")
            IN  [j \in DOMAIN avas |-> ParseAVA(avas[j])]]

(***************************************************************************)
(* _dn_compare                                                             *)
(***************************************************************************)

NoError == "none"
MultiValued == "Multi-valued RDNs are not supported"
MixedWeights == "Cannot compare weighted and unweighted values"

Return(n) == [err |-> NoError, val |-> n]
Raise(e) == [err |-> e, val |-> 0]

\* _next_rdn(rdns), without the pop: the last RDN, parsed.
next_rdn(rdns) == str2dn(rdns[Len(rdns)])[1]

\* rdns after rdns.pop()
Popped(rdns) == SubSeq(rdns, 1, Len(rdns) - 1)

\* _rdn_av(rdn)
rdn_av(rdn) == <<lower(rdn[1][1]), rdn[1][2]>>

\* A step of the comparison: it ends with res, or goes on.
Decided(res) == [kind |-> "return", res |-> res]
Undecided == [kind |-> "next", res |-> Return(0)]

\* The values the comparison of a level goes on with.
Values(v1, v2) == [kind |-> "values", res |-> Return(0), v1 |-> v1, v2 |-> v2]
Ended(res) == [kind |-> "return", res |-> res, v1 |-> <<>>, v2 |-> <<>>]

\* A mutant: the mixed case compares the weighted side's remainder.
WeightCases_remainder(v1w, v2w, dn1_val, dn2_val, mix_weighted) ==
    IF v1w.matched /\ v2w.matched
    THEN IF v1w.w # v2w.w
         THEN Ended(Return(int(v1w.w) - int(v2w.w)))
         ELSE Values(v1w.rest, v2w.rest)
    ELSE IF (v1w.matched \/ v2w.matched) /\ ~mix_weighted
    THEN Ended(Raise(MixedWeights))
    ELSE Values(v1w.rest, v2w.rest)

\* A mutant: a weighted and an unweighted value are compared whatever
\* mix_weighted is.
WeightCases_noraise(v1w, v2w, dn1_val, dn2_val, mix_weighted) ==
    IF v1w.matched /\ v2w.matched
    THEN IF v1w.w # v2w.w
         THEN Ended(Return(int(v1w.w) - int(v2w.w)))
         ELSE Values(v1w.rest, v2w.rest)
    ELSE Values(dn1_val, dn2_val)

\* Lines 99-105, v1w and v2w being the two matches: either the comparison
\* ends here, with a result or a raised error, or it goes on with two
\* values.  Only when both values are weighted are dn1_val and dn2_val
\* replaced by the remainders.
WeightCases(v1w, v2w, dn1_val, dn2_val, mix_weighted) ==
    IF v1w.matched /\ v2w.matched
    THEN IF v1w.w # v2w.w
         THEN Ended(Return(int(v1w.w) - int(v2w.w)))
         ELSE Values(v1w.rest, v2w.rest)
    ELSE IF (v1w.matched \/ v2w.matched) /\ ~mix_weighted
    THEN Ended(Raise(MixedWeights))
    ELSE Values(dn1_val, dn2_val)

\* Lines 97-105
WeightStep(dn1_val, dn2_val, mix_weighted) ==
    WeightCases(WEIGHTED_ATTR_fullmatch(dn1_val), WEIGHTED_ATTR_fullmatch(dn2_val),
                dn1_val, dn2_val, mix_weighted)

\* Lines 92-95 and 106-109: c is the three-way comparison of two str.
ByOrder(c, otherwise) ==
    IF c < 0 THEN Decided(Return(-1))
    ELSE IF c > 0 THEN Decided(Return(1))
    ELSE otherwise

\* Lines 99-109, ws being the outcome of the weights.
CompareValues(ws) ==
    IF ws.kind = "return" THEN Decided(ws.res)
    ELSE ByOrder(StrCmp(ws.v1, ws.v2), Undecided)

\* Lines 89-109, av1 and av2 being (dn1_attr, dn1_val) and (dn2_attr, dn2_val).
CompareAVs(av1, av2, mix_weighted) ==
    ByOrder(StrCmp(av1[1], av2[1]),
            CompareValues(WeightStep(av1[2], av2[2], mix_weighted)))

\* A mutant: only a level where both RDNs are multi-valued is refused.
MultiValuedFound_both(dn1_rdn, dn2_rdn) == Len(dn1_rdn) # 1 /\ Len(dn2_rdn) # 1

\* Line 87: one of the two RDNs of the level has several values.
MultiValuedFound(dn1_rdn, dn2_rdn) == Len(dn1_rdn) # 1 \/ Len(dn2_rdn) # 1

\* Lines 87-109: one pass of the while loop on the RDNs dn1_rdn and dn2_rdn.
CompareLevel(dn1_rdn, dn2_rdn, mix_weighted) ==
    IF MultiValuedFound(dn1_rdn, dn2_rdn) THEN Decided(Raise(MultiValued))
    ELSE CompareAVs(rdn_av(dn1_rdn), rdn_av(dn2_rdn), mix_weighted)

RECURSIVE CompareRdns(_, _, _)

\* The end of a pass: the comparison returns or raises, or the loop goes on
\* with the RDNs that are left.
LoopOn(step, dn1_rdns, dn2_rdns, mix_weighted) ==
    IF step.kind = "return" THEN step.res
    ELSE CompareRdns(dn1_rdns, dn2_rdns, mix_weighted)

\* The while loop of lines 84-110 over the RDN strings still to compare.
CompareRdns(dn1_rdns, dn2_rdns, mix_weighted) ==
    IF ~(Len(dn1_rdns) > 0 /\ Len(dn2_rdns) > 0)
    THEN Return(Len(dn1_rdns) - Len(dn2_rdns))
    ELSE LoopOn(CompareLevel(next_rdn(dn1_rdns), next_rdn(dn2_rdns), mix_weighted),
                Popped(dn1_rdns), Popped(dn2_rdns), mix_weighted)

\* Lines 71-110, dn1 and dn2 being the DNs of the two records.
CompareDns(dn1, dn2, mix_weighted) ==
    IF dn1 = dn2 THEN Return(0)
    ELSE CompareRdns(explode_dn(dn1), explode_dn(dn2), mix_weighted)

\* _dn_compare(rec1, rec2, mix_weighted)
_dn_compare(r1, r2, mix_weighted) == CompareDns(r1.dn, r2.dn, mix_weighted)

(***************************************************************************)
(* ldif_sort: sorted(data, key=functools.cmp_to_key(...)).  A list of      *)
(* fewer than 64 records is sorted by list.sort as one run: the initial    *)
(* run is counted (and reversed when strictly descending), the other       *)
(* records are added by binary insertion.  key(x) < key(y) is              *)
(* _dn_compare(x, y) < 0.  cmps lists the comparisons made, in order.      *)
(***************************************************************************)

\* A mutant: key(x) < key(y) also when the records compare equal.
IsLess_orequal(c) == c.val <= 0

\* K.__lt__ of cmp_to_key on the result c of the comparison function.
IsLess(c) == c.val < 0

RECURSIVE RunEnd(_, _, _, _, _)

\* count_run on a[i]: c is the comparison of a[i] with a[i-1].  The run goes
\* on while a[i] < a[i-1] is desc; n is the length of the run.
RunStep(a, mix_weighted, i, desc, cmps, c) ==
    IF c.err # NoError THEN [err |-> c.err, n |-> 0, desc |-> desc, cmps |-> cmps]
    ELSE IF IsLess(c) = desc THEN RunEnd(a, mix_weighted, i + 1, desc, cmps)
    ELSE [err |-> NoError, n |-> i - 1, desc |-> desc, cmps |-> cmps]

\* count_run from a[i] on.
RunEnd(a, mix_weighted, i, desc, cmps) ==
    IF i > Len(a) THEN [err |-> NoError, n |-> Len(a), desc |-> desc, cmps |-> cmps]
    ELSE RunStep(a, mix_weighted, i, desc, Append(cmps, <<a[i], a[i - 1]>>),
                 _dn_compare(a[i], a[i - 1], mix_weighted))

\* count_run after its first comparison c, of a[2] with a[1], which tells
\* whether the run is descending.
RunFrom(a, mix_weighted, cmps, c) ==
    IF c.err # NoError THEN [err |-> c.err, n |-> 0, desc |-> FALSE, cmps |-> cmps]
    ELSE RunEnd(a, mix_weighted, 3, IsLess(c), cmps)

\* count_run(lo, hi, &descending) on a list of at least two records.
count_run(a, mix_weighted) ==
    RunFrom(a, mix_weighted, << <<a[2], a[1]>> >>, _dn_compare(a[2], a[1], mix_weighted))

\* reverse_slice
Reverse(x) == [i \in DOMAIN x |-> x[Len(x) + 1 - i]]

RECURSIVE BinarySearch(_, _, _, _, _, _)

\* The end of a pass of the do-while of binarysort, with the new l and r.
SearchOn(a, pivot, l, r, mix_weighted, cmps) ==
    IF l < r THEN BinarySearch(a, pivot, l, r, mix_weighted, cmps)
    ELSE [err |-> NoError, l |-> l, cmps |-> cmps]

\* A pass of the do-while of binarysort: c is the comparison of pivot with
\* a[p].
SearchStep(a, pivot, l, r, p, mix_weighted, cmps, c) ==
    IF c.err # NoError THEN [err |-> c.err, l |-> 0, cmps |-> cmps]
    ELSE IF IsLess(c) THEN SearchOn(a, pivot, l, p, mix_weighted, cmps)
    ELSE SearchOn(a, pivot, p + 1, r, mix_weighted, cmps)

\* The compared place p of a pass.
SearchAt(a, pivot, l, r, p, mix_weighted, cmps) ==
    SearchStep(a, pivot, l, r, p, mix_weighted, Append(cmps, <<pivot, a[p]>>),
               _dn_compare(pivot, a[p], mix_weighted))

\* The do-while of binarysort: the place of pivot in the sorted a[l..r-1].
BinarySearch(a, pivot, l, r, mix_weighted, cmps) ==
    SearchAt(a, pivot, l, r, l + ((r - l) \div 2), mix_weighted, cmps)

RECURSIVE binarysort(_, _, _, _)

\* The end of a pass of binarysort: a[start] is moved to the place f.l found.
Insert(a, start, mix_weighted, f) ==
    IF f.err # NoError THEN [err |-> f.err, lst |-> <<>>, cmps |-> f.cmps]
    ELSE binarysort(SubSeq(a, 1, f.l - 1) \o <<a[start]>>
                       \o SubSeq(a, f.l, start - 1)
                       \o SubSeq(a, start + 1, Len(a)),
                    start + 1, mix_weighted, f.cmps)

\* binarysort(lo, hi, start): a[1..start-1] is sorted, the records from
\* a[start] on are inserted one by one.
binarysort(a, start, mix_weighted, cmps) ==
    IF start > Len(a) THEN [err |-> NoError, lst |-> a, cmps |-> cmps]
    ELSE Insert(a, start, mix_weighted,
                BinarySearch(a, a[start], 1, start, mix_weighted, cmps))

\* list.sort once the run is counted.
SortRun(a, mix_weighted, run) ==
    IF run.err # NoError THEN [err |-> run.err, lst |-> <<>>, cmps |-> run.cmps]
    ELSE binarysort(IF run.desc
                    THEN Reverse(SubSeq(a, 1, run.n)) \o SubSeq(a, run.n + 1, Len(a))
                    ELSE a,
                    run.n + 1, mix_weighted, run.cmps)

\* ldif_sort(data, allow_mix_weighted): err names the exception that left the
\* sort, lst is the list returned when there is none.
ldif_sort(a, allow_mix_weighted) ==
    IF Len(a) < 2 THEN [err |-> NoError, lst |-> a, cmps |-> <<>>]
    ELSE SortRun(a, allow_mix_weighted, count_run(a, allow_mix_weighted))

(***************************************************************************)
(* SpecCompare: _dn_compare on two records, and ldif_sort on the two       *)
(***************************************************************************)

\* Most RDNs in a DN.
MaxDepth == 2

AVA(attr, val) == attr \o <<"=">> \o val

\* Values of the leftmost RDN: unweighted, weighted, and "{3}", which has
\* the braces and no remainder.
LeafValues ==
    { <<"a">>, <<"z">>, <<"{", "3", "}">>,
      <<"{", "0", "}", "a">>, <<"{", "1", "}", "b">>, <<"{", "1", "}", "a">>,
      <<"{", "0", "1", "}", "a">>, <<"{", "-", "0", "}", "b">>,
      <<"{", "-", "1", "}", "a">>, <<"{", "1", "0", "}", "a">>,
      <<"{", "9", "}", "b">> }

LeafAttrs == { <<"o", "u">>, <<"O", "U">> }

\* cn=a+ou=b
MultiRDN == AVA(<<"c", "n">>, <<"a">>) \o <<"+">> \o AVA(<<"o", "u">>, <<"b">>)

LeafRDNs ==
    {AVA(a, v) : a \in LeafAttrs, v \in LeafValues}
        \cup {AVA(<<"c", "n">>, <<"a">>), MultiRDN}

UpperRDNs == { AVA(<<"d", "c">>, <<"x">>), AVA(<<"D", "C">>, <<"x">>) }

\* The DNs made of 1 to n upper RDNs.
RECURSIVE Chains(_)
Chains(n) ==
    IF n <= 0 THEN {}
    ELSE UpperRDNs \cup {u \o <<",">> \o c : u \in UpperRDNs, c \in Chains(n - 1)}

CompareDNs ==
    LeafRDNs \cup Chains(MaxDepth - 1)
        \cup {l \o <<",">> \o c : l \in LeafRDNs, c \in Chains(MaxDepth - 1)}

InitCompare ==
    /\ pc = "start"
    /\ rec1 \in [dn : CompareDNs]
    /\ rec2 \in [dn : CompareDNs]
    /\ mix \in BOOLEAN
    /\ r12 = Null /\ out = Null
    /\ value = Null /\ match = Null
    /\ data = Null /\ cmat = Null /\ out2 = Null
    /\ records = Null /\ ldif = Null /\ parsed = Null

\* r12 = _dn_compare(rec1, rec2, mix)
Compare ==
    /\ pc = "start"
    /\ r12' = _dn_compare(rec1, rec2, mix)
    /\ pc' = "compared"
    /\ UNCHANGED <<value, match, rec1, rec2, mix, data, cmat, out, out2,
                   records, ldif, parsed>>

\* ldif_sort([rec1, rec2], mix)
SortPair ==
    /\ pc = "start"
    /\ out' = ldif_sort(<<rec1, rec2>>, mix)
    /\ pc' = "sorted"
    /\ UNCHANGED <<value, match, rec1, rec2, mix, r12, data, cmat, out2,
                   records, ldif, parsed>>

NextCompare == Compare \/ SortPair

SpecCompare == InitCompare /\ [][NextCompare]_vars

(***************************************************************************)
(* Properties of weight extraction and of _dn_compare.  The notions they   *)
(* use are defined here from the shape of the text, not from the           *)
(* operators above.                                                        *)
(***************************************************************************)

Sign(n) == IF n < 0 THEN -1 ELSE IF n > 0 THEN 1 ELSE 0

\* w is an optionally negative decimal integer.
SignedInt(w) ==
    LET d == IF w # <<>> /\ w[1] = "-" THEN Tail(w) ELSE w
    IN  d # <<>> /\ \A i \in DOMAIN d : d[i] \in Digits

\* v is {<integer>}<remainder> with a remainder of at least minRest
\* characters; k is the place of the closing brace.
BraceAt(v, k, minRest) ==
    /\ v[1] = "{" /\ v[k] = "}"
    /\ SignedInt(SubSeq(v, 2, k - 1))
    /\ Len(v) - k >= minRest

WeightedForm(v, minRest) == \E k \in DOMAIN v : BraceAt(v, k, minRest)

NoLineBreak(v) == \A i \in DOMAIN v : v[i] # "\n"

\* What follows the first closing brace of v.
AfterBrace(v) == SubSeq(v, IndexOf(v, "}") + 1, Len(v))

\* What stands between the opening brace and the first closing brace of v.
InBraces(v) == SubSeq(v, 2, IndexOf(v, "}") - 1)

\* A value the comparison treats as weighted.
Weighted(v) == WeightedForm(v, 1) /\ NoLineBreak(v)

RdnsOf(rec) == str2dn(rec.dn)

\* The k-th RDN from the right.
FromRight(rdns, k) == rdns[Len(rdns) + 1 - k]

\* Both DNs have a single-valued RDN at level k, counted from the right, with
\* the same attribute name up to case.
SameAttrAt(a, b, k) ==
    /\ k <= Len(a) /\ k <= Len(b)
    /\ Len(FromRight(a, k)) = 1 /\ Len(FromRight(b, k)) = 1
    /\ lower(FromRight(a, k)[1][1]) = lower(FromRight(b, k)[1][1])

ValueAt(a, k) == FromRight(a, k)[1][2]

\* The two DNs are equal at every level to the right of level k.
EqualRightOf(a, b, k) ==
    \A j \in 1..(k - 1) : SameAttrAt(a, b, j) /\ ValueAt(a, j) = ValueAt(b, j)

\* Level k is the first level from the right at which the values differ, the
\* attribute names being the same.
DecidingLevel(a, b, k) ==
    EqualRightOf(a, b, k) /\ SameAttrAt(a, b, k) /\ ValueAt(a, k) # ValueAt(b, k)

Levels == 1..(MaxDepth + 1)

\* Exactly one of the two values is weighted.
OneWeighted(v1, v2) == Weighted(v1) # Weighted(v2)

\* The remainder of a weighted value, an unweighted value as it is.
Remainder(v) == IF Weighted(v) THEN AfterBrace(v) ELSE v

\* C1 as claimed: with mixed weighting allowed, a level with one weighted and
\* one unweighted value is decided by comparing the weighted value's remainder
\* with the other value.
C1_Original ==
    (pc = "compared" /\ mix) =>
        \A k \in Levels :
            LET a == RdnsOf(rec1)
                b == RdnsOf(rec2)
            IN  (/\ DecidingLevel(a, b, k)
                 /\ OneWeighted(ValueAt(a, k), ValueAt(b, k))
                 /\ Remainder(ValueAt(a, k)) # Remainder(ValueAt(b, k))) =>
                    /\ r12.err = NoError
                    /\ Sign(r12.val) =
                           StrCmp(Remainder(ValueAt(a, k)), Remainder(ValueAt(b, k)))

\* C1 as amended: with mixed weighting allowed, a level with one weighted and
\* one unweighted value is decided by comparing the two values as they are
\* written, the weighted one with its {<integer>} prefix.
C1_MixedComparesRawValues ==
    (pc = "compared" /\ mix) =>
        \A k \in Levels :
            LET a == RdnsOf(rec1)
                b == RdnsOf(rec2)
            IN  (/\ DecidingLevel(a, b, k)
                 /\ OneWeighted(ValueAt(a, k), ValueAt(b, k))) =>
                    /\ r12.err = NoError
                    /\ Sign(r12.val) = StrCmp(ValueAt(a, k), ValueAt(b, k))

\* ou={0}a,dc=x has been compared with ou=z,dc=x, mixed weighting allowed, and
\* is placed after it.
C1_Witness ==
    /\ pc = "compared" /\ mix
    /\ rec1.dn = AVA(<<"o", "u">>, <<"{", "0", "}", "a">>) \o <<",">> \o AVA(<<"d", "c">>, <<"x">>)
    /\ rec2.dn = AVA(<<"o", "u">>, <<"z">>) \o <<",">> \o AVA(<<"d", "c">>, <<"x">>)
    /\ r12.err = NoError /\ r12.val > 0

\* C9: with mixed weighting not allowed, a level with one weighted and one
\* unweighted value, reached because the DNs are equal to the right of it,
\* makes the comparison raise "Cannot compare weighted and unweighted values"
\* whichever of the two records comes first, and the sort of the two records
\* raises it too.
C9_MixedRaises ==
    (~(pc = "start") /\ ~mix) =>
        \A k \in Levels :
            LET a == RdnsOf(rec1)
                b == RdnsOf(rec2)
            IN  (/\ DecidingLevel(a, b, k)
                 /\ OneWeighted(ValueAt(a, k), ValueAt(b, k))) =>
                    /\ pc = "compared" => r12.err = MixedWeights
                    /\ pc = "sorted" => out.err = MixedWeights

\* The sort of ou={0}a,dc=x and ou=z,DC=x, mixed weighting not allowed, has
\* raised.
C9_Witness ==
    /\ pc = "sorted" /\ ~mix
    /\ rec1.dn = AVA(<<"o", "u">>, <<"{", "0", "}", "a">>) \o <<",">> \o AVA(<<"d", "c">>, <<"x">>)
    /\ rec2.dn = AVA(<<"o", "u">>, <<"z">>) \o <<",">> \o AVA(<<"D", "C">>, <<"x">>)
    /\ out.err = MixedWeights

\* C10 as claimed: a level with two weighted values is decided by the pairs
\* (weight as an integer, remainder): different integers decide, equal
\* integers, however written, leave it to the remainders.
C10_Original ==
    pc = "compared" =>
        \A k \in Levels :
            LET a  == RdnsOf(rec1)
                b  == RdnsOf(rec2)
                w1 == int(InBraces(ValueAt(a, k)))
                w2 == int(InBraces(ValueAt(b, k)))
                x1 == AfterBrace(ValueAt(a, k))
                x2 == AfterBrace(ValueAt(b, k))
            IN  (/\ DecidingLevel(a, b, k)
                 /\ Weighted(ValueAt(a, k)) /\ Weighted(ValueAt(b, k))) =>
                    /\ r12.err = NoError
                    /\ w1 # w2 => Sign(r12.val) = Sign(w1 - w2)
                    /\ (w1 = w2 /\ x1 # x2) => Sign(r12.val) = StrCmp(x1, x2)

(***************************************************************************)
(* SpecSort: ldif_sort on a list of records, ldif_sort again on its        *)
(* result, and _dn_compare over every pair of the list                     *)
(***************************************************************************)

\* Most records in the list given to ldif_sort.
MaxRecs == 3

DcX == AVA(<<"d", "c">>, <<"x">>)

Under(rdn, parent) == rdn \o <<",">> \o parent

Ou(val) == AVA(<<"o", "u">>, val)

\* The DNs of the records: an entry and entries under it with unweighted and
\* weighted values, weights written in different ways, a value with an
\* unclosed brace, another case of the attribute name, and multi-valued RDNs.
SortDNs ==
    { DcX,
      Under(Ou(<<"z">>), DcX),
      Under(AVA(<<"O", "U">>, <<"z">>), DcX),
      Under(Ou(<<"{", "0", "}", "a">>), DcX),
      Under(Ou(<<"{", "1", "}", "b">>), DcX),
      Under(Ou(<<"{", "0", "1", "}", "a">>), DcX),
      Under(Ou(<<"{", "1", "}", "z">>), DcX),
      Under(AVA(<<"c", "n">>, <<"c">>), Under(Ou(<<"{", "1", "}", "b">>), DcX)),
      Under(Ou(<<"{", "-", "1", "}", "a">>), DcX),
      Under(Ou(<<"{", "-", "3", "}", "a">>), DcX),
      Under(Ou(<<"{", "-", "3">>), DcX),
      Under(MultiRDN, DcX),
      Under(Ou(<<"z">>), MultiRDN) }

\* The lists of n records; the attribute id tells apart records with the
\* same DN.
RecordLists(n) == {[i \in 1..n |-> [dn |-> f[i], id |-> i]] : f \in [1..n -> SortDNs]}

InitSort ==
    /\ pc = "start"
    /\ data \in UNION {RecordLists(n) : n \in 0..MaxRecs}
    /\ mix \in BOOLEAN
    /\ cmat = Null /\ out = Null /\ out2 = Null
    /\ value = Null /\ match = Null
    /\ rec1 = Null /\ rec2 = Null /\ r12 = Null
    /\ records = Null /\ ldif = Null /\ parsed = Null

\* _dn_compare(a, b, mix) for every two records a, b of data
CompareAll ==
    /\ pc = "start"
    /\ cmat' = [i \in DOMAIN data |-> [j \in DOMAIN data |->
                   _dn_compare(data[i], data[j], mix)]]
    /\ pc' = "compared"
    /\ UNCHANGED <<value, match, rec1, rec2, mix, r12, data, out, out2,
                   records, ldif, parsed>>

\* out = ldif_sort(data, mix)
Sort ==
    /\ pc = "start"
    /\ out' = ldif_sort(data, mix)
    /\ pc' = "sorted"
    /\ UNCHANGED <<value, match, rec1, rec2, mix, r12, data, cmat, out2,
                   records, ldif, parsed>>

\* out2 = ldif_sort(out, mix), when the first sort returned a list
SortAgain ==
    /\ pc = "sorted"
    /\ out.err = NoError
    /\ out2' = ldif_sort(out.lst, mix)
    /\ pc' = "resorted"
    /\ UNCHANGED <<value, match, rec1, rec2, mix, r12, data, cmat, out,
                   records, ldif, parsed>>

NextSort == CompareAll \/ Sort \/ SortAgain

SpecSort == InitSort /\ [][NextSort]_vars

(***************************************************************************)
(* Properties of ldif_sort                                                 *)
(***************************************************************************)

\* The DN of the record has an RDN with several values.
HasMultiValuedRdn(rec) == \E i \in DOMAIN RdnsOf(rec) : Len(RdnsOf(rec)[i]) # 1

\* The comparison of the two records walks, over equal levels, to a level
\* where one of them has a multi-valued RDN.
ReachesMultiValued(x, y) ==
    /\ x.dn # y.dn
    /\ \E k \in Levels :
           LET a == RdnsOf(x)
               b == RdnsOf(y)
           IN  /\ k <= Len(a) /\ k <= Len(b)
               /\ EqualRightOf(a, b, k)
               /\ (Len(FromRight(a, k)) # 1 \/ Len(FromRight(b, k)) # 1)

\* The pairs of records a sort compared.
Compared(res) == {res.cmps[i] : i \in DOMAIN res.cmps}

\* C2 as claimed: the sort of a list in which some DN has a multi-valued RDN
\* raises an error, whatever the list and the flag are.
C2_Original ==
    (pc = "sorted" /\ \E i \in DOMAIN data : HasMultiValuedRdn(data[i])) =>
        out.err # NoError

\* C2 as amended: the sort raises "Multi-valued RDNs are not supported",
\* whatever the flag is, exactly when one of the comparisons it makes is
\* between two records with different DN strings and walks, over equal
\* levels, to a level where one of the two has a multi-valued RDN.  A list of
\* one record, records with the same DN string, and a multi-valued RDN to the
\* left of the level that decides a comparison are sorted without this error.
C2_MultiValuedRaisesWhenReached ==
    pc = "sorted" =>
        /\ (\E c \in Compared(out) : ReachesMultiValued(c[1], c[2]))
               <=> out.err = MultiValued
        /\ Len(data) = 1 => out.err = NoError
        /\ (\A i, j \in DOMAIN data : data[i].dn = data[j].dn) => out.err = NoError

\* Two records, one with a multi-valued RDN, have been sorted without error.
C2_Witness ==
    /\ pc = "sorted" /\ Len(data) = 2
    /\ HasMultiValuedRdn(data[1]) /\ ~HasMultiValuedRdn(data[2])
    /\ out.err = NoError
    /\ out.lst = <<data[2], data[1]>>

\* C3 as claimed: over records whose comparisons do not fail, the comparison
\* is antisymmetric and transitive.
C3_Original ==
    pc = "compared" =>
        \A i, j, k \in DOMAIN data :
            (/\ cmat[i][j].err = NoError /\ cmat[j][i].err = NoError
             /\ cmat[j][k].err = NoError /\ cmat[i][k].err = NoError) =>
                /\ Sign(cmat[i][j].val) = 0 - Sign(cmat[j][i].val)
                /\ (cmat[i][j].val <= 0 /\ cmat[j][k].val <= 0) => cmat[i][k].val <= 0

\* C7: when the sort returns a list, the sort of that list returns the same
\* list, record by record.
C7_SortIdempotent ==
    pc = "resorted" => (out2.err = NoError /\ out2.lst = out.lst)

\* A list that the first sort reordered, with two records that compare equal
\* and have different DN strings, has been sorted twice.
C7_Witness ==
    /\ pc = "resorted"
    /\ out.lst # data
    /\ \E i, j \in DOMAIN data :
           /\ i # j /\ data[i].dn # data[j].dn
           /\ _dn_compare(data[i], data[j], mix) = Return(0)

\* e is d with one or more RDNs put before it.
IsAncestor(d, e) ==
    /\ Len(e) > Len(d) + 1
    /\ SubSeq(e, Len(e) - Len(d), Len(e)) = <<",">> \o d

\* C8 as claimed: a DN of single-valued RDNs compares before each of its
\* descendants, and a sorted list has every ancestor before its descendants.
C8_Original ==
    /\ pc = "compared" =>
           \A i, j \in DOMAIN data :
               (IsAncestor(data[i].dn, data[j].dn) /\ ~HasMultiValuedRdn(data[i])) =>
                   (cmat[i][j].err = NoError /\ cmat[i][j].val < 0)
    /\ (pc = "sorted" /\ out.err = NoError) =>
           \A p, q \in DOMAIN out.lst :
               (IsAncestor(out.lst[q].dn, out.lst[p].dn) /\ ~HasMultiValuedRdn(out.lst[q])) =>
                   q < p

(***************************************************************************)
(* Python values handed to to_ldif and returned by from_ldif.  t is the    *)
(* type; s holds a str, n an int, l the items of a list, d the items of a  *)
(* dict as a function from keys to values.                                 *)
(***************************************************************************)

PyStr(x) == [t |-> "str", s |-> x, n |-> 0, l |-> <<>>, d |-> <<>>]
PyInt(x) == [t |-> "int", s |-> <<>>, n |-> x, l |-> <<>>, d |-> <<>>]
PyList(x) == [t |-> "list", s |-> <<>>, n |-> 0, l |-> x, d |-> <<>>]
PyDict(x) == [t |-> "dict", s |-> <<>>, n |-> 0, l |-> <<>>, d |-> x]
PyNone == [t |-> "NoneType", s |-> <<>>, n |-> 0, l |-> <<>>, d |-> <<>>]

\* str(n) for n >= 0
RECURSIVE NatToStr(_)
NatToStr(n) ==
    IF n < 10 THEN <<DigitSeq[n + 1]>>
    ELSE Append(NatToStr(n \div 10), DigitSeq[(n % 10) + 1])

\* str(v) for a str, an int or None
str(v) ==
    CASE v.t = "str" -> v.s
      [] v.t = "int" -> IF v.n < 0 THEN <<"-">> \o NatToStr(0 - v.n) ELSE NatToStr(v.n)
      [] OTHER -> <<"N", "o", "n", "e">>

\* The key "dn"
DnKey == PyStr(<<"d", "n">>)

(***************************************************************************)
(* to_ldif                                                                 *)
(***************************************************************************)

TypeError == "AnsibleFilterTypeError"
FilterError == "AnsibleFilterError"

\* Lines 186-191: the attribute values that are not refused.  The items of a
\* list are not looked at.
ValueAccepted(v) == v.t \in {"str", "int"} \/ v.t = "list"

\* Lines 186-189: the encoded values of an attribute.
ProcessedValues(v) ==
    IF v.t \in {"str", "int"} THEN <<str(v)>>
    ELSE [i \in DOMAIN v.l |-> str(v.l[i])]

\* Lines 171-192, one pass of the pre-processing loop: the pair
\* (record["dn"], processed_record), or the type error raised.
ProcessRecord(record) ==
    IF record.t # "dict" THEN [err |-> TypeError, dn |-> <<>>, attrs |-> <<>>]
    ELSE IF DnKey \notin DOMAIN record.d
    THEN [err |-> TypeError, dn |-> <<>>, attrs |-> <<>>]
    ELSE IF record.d[DnKey].t # "str"
    THEN [err |-> TypeError, dn |-> <<>>, attrs |-> <<>>]
    ELSE IF \E k \in DOMAIN record.d \ {DnKey} :
                k.t # "str" \/ ~ValueAccepted(record.d[k])
    THEN [err |-> TypeError, dn |-> <<>>, attrs |-> <<>>]
    ELSE [err |-> NoError,
          dn |-> record.d[DnKey].s,
          attrs |-> [name \in {k.s : k \in DOMAIN record.d \ {DnKey}} |->
                        ProcessedValues(record.d[PyStr(name)])]]

\* sorted() of a set of str
RECURSIVE SortedNames(_)
SortedNames(names) ==
    IF names = {} THEN <<>>
    ELSE LET first == CHOOSE x \in names : \A y \in names : StrCmp(x, y) <= 0
         IN  <<first>> \o SortedNames(names \ {first})

\* LDIFWriter._unparseAttrTypeandValue for a value that needs no base64 and
\* a line that needs no folding.
AttrLine(attr_type, attr_value) == attr_type \o <<":", " ">> \o attr_value \o <<"\n">>

RECURSIVE Concat(_)
Concat(ss) == IF ss = <<>> THEN <<>> ELSE ss[1] \o Concat(Tail(ss))

\* LDIFWriter.unparse(dn, record): the dn line, the attributes in the order
\* of their names with one line per value, and an empty line.
unparse(dn, attrs) ==
    LET names == SortedNames(DOMAIN attrs)
    IN  AttrLine(<<"d", "n">>, dn)
            \o Concat([i \in DOMAIN names |->
                   Concat([j \in DOMAIN attrs[names[i]] |->
                       AttrLine(names[i], attrs[names[i]][j])])])
            \o <<"\n">>

\* to_ldif(data): the LDIF text, or the error raised.
to_ldif(d) ==
    IF d.t # "list" THEN [err |-> TypeError, text |-> <<>>]
    ELSE LET processed_data == [i \in DOMAIN d.l |-> ProcessRecord(d.l[i])]
         IN  IF \E i \in DOMAIN processed_data : processed_data[i].err # NoError
             THEN [err |-> TypeError, text |-> <<>>]
             ELSE [err |-> NoError,
                   text |-> Concat([i \in DOMAIN processed_data |->
                                unparse(processed_data[i].dn, processed_data[i].attrs)])]

(***************************************************************************)
(* from_ldif: ldif.LDIFRecordList(...).parse() on text without comments,   *)
(* folded lines, base64 or URL values, then lines 141-145                  *)
(***************************************************************************)

\* str.lstrip() of spaces
RECURSIVE lstrip(_)
lstrip(x) == IF x # <<>> /\ x[1] = " " THEN lstrip(Tail(x)) ELSE x

\* LDIFParser._next_key_and_value on one line: the attribute type and the
\* value, split at the first colon.
KeyAndValue(line) ==
    LET colon_pos == IndexOf(line, ":")
        value_spec == SubSeq(line, colon_pos, colon_pos + 1)
    IN  IF colon_pos = 0 THEN [err |-> FilterError, k |-> <<>>, v |-> <<>>]
        ELSE [err |-> NoError,
              k |-> SubSeq(line, 1, colon_pos - 1),
              v |-> IF value_spec = <<":", " ">>
                    THEN lstrip(SubSeq(line, colon_pos + 2, Len(line)))
                    ELSE <<>>]

\* ldif.is_dn(s): every RDN is made of type=value pairs.
is_dn(x) ==
    \/ x = <<>>
    \/ LET rdns == Split(x, ",")
       IN  \A i \in DOMAIN rdns :
               rdns[i] # <<>> /\
               LET avas == Split(rdns[i], "+")
               IN  \A j \in DOMAIN avas :
                       LET eq == IndexOf(avas[j], "=")
                       IN  eq > 1 /\ eq < Len(avas[j])

\* entry[k].append(v), entry being the list of (type, values) in the order
\* the types first appear.
AddValue(entry, k, v) ==
    IF \E i \in DOMAIN entry : entry[i][1] = k
    THEN [i \in DOMAIN entry |->
             IF entry[i][1] = k THEN <<k, Append(entry[i][2], v)>> ELSE entry[i]]
    ELSE Append(entry, <<k, <<v>>>>)

\* The loop that reads the attributes of a record, from line i to the next
\* empty line or the end.
RECURSIVE ParseAttrs(_, _, _)
ParseAttrs(lines, i, entry) ==
    IF i > Len(lines) \/ lines[i] = <<>> THEN [err |-> NoError, next |-> i, entry |-> entry]
    ELSE LET kv == KeyAndValue(lines[i])
         IN  IF kv.err # NoError THEN [err |-> kv.err, next |-> i, entry |-> entry]
             ELSE ParseAttrs(lines, i + 1, AddValue(entry, kv.k, kv.v))

\* LDIFParser.parse_entry_records: all_records, the (dn, entry) pairs.
RECURSIVE ParseRecords(_, _, _)
ParseRecords(lines, i, all_records) ==
    IF i > Len(lines) THEN [err |-> NoError, all_records |-> all_records]
    ELSE IF lines[i] = <<>> THEN ParseRecords(lines, i + 1, all_records)
    ELSE LET kv == KeyAndValue(lines[i])
         IN  IF kv.err # NoError \/ kv.k # <<"d", "n">> \/ ~is_dn(kv.v)
             THEN [err |-> FilterError, all_records |-> <<>>]
             ELSE LET r == ParseAttrs(lines, i + 1, <<>>)
                  IN  IF r.err # NoError THEN [err |-> FilterError, all_records |-> <<>>]
                      ELSE ParseRecords(lines, r.next,
                                        Append(all_records, <<kv.v, r.entry>>))

\* _try_utf8(inval) on bytes that are UTF-8
try_utf8(inval) == PyStr(inval)

\* A mutant: the attribute names are kept as they are written.
OutKey_ascase(attr) == PyStr(attr)

\* Line 144: the key of an attribute in the output record.
OutKey(attr) == PyStr(lower(attr))

\* Lines 142-144: out_obj after the first n attributes of the entry have
\* been stored, each under its lower-cased name.
RECURSIVE OutObj(_, _, _)
OutObj(dn, entry, n) ==
    IF n = 0 THEN (DnKey :> PyStr(dn))
    ELSE LET prev == OutObj(dn, entry, n - 1)
             key  == OutKey(entry[n][1])
             val  == PyList([i \in DOMAIN entry[n][2] |-> try_utf8(entry[n][2][i])])
         IN  [k \in DOMAIN prev \cup {key} |-> IF k = key THEN val ELSE prev[k]]

\* from_ldif(ldif_data): the list of records, or the error raised.
from_ldif(ldif_data) ==
    LET p == ParseRecords(Split(ldif_data, "\n"), 1, <<>>)
    IN  IF p.err # NoError THEN [err |-> FilterError, lst |-> <<>>]
        ELSE [err |-> NoError,
              lst |-> [i \in DOMAIN p.all_records |->
                          PyDict(OutObj(p.all_records[i][1], p.all_records[i][2],
                                        Len(p.all_records[i][2])))]]

(***************************************************************************)
(* SpecCodec: to_ldif on a list of records, from_ldif on its result        *)
(***************************************************************************)

\* Most records in the list given to to_ldif.
MaxEntries == 2

Cn == PyStr(<<"c", "n">>)
ValV == PyStr(<<"v">>)
ValZ == PyStr(<<"z">>)
DnDcX == PyStr(DcX)

\* The records: well-formed ones with str, int and list values, an upper-case
\* attribute name, two names that differ by case only, a name that lower-cases
\* to dn, an empty list, no attribute, a DN that is no DN; and the malformed
\* ones: a list item and a value of another type, a DN that is no str, no DN,
\* a name that is no str, a record that is no dict.
CodecRecords ==
    { PyDict((DnKey :> DnDcX) @@ (Cn :> ValV)),
      PyDict((DnKey :> PyStr(Under(Ou(<<"z">>), DcX)))
                @@ (Cn :> PyList(<<ValV, PyInt(7)>>)) @@ (PyStr(<<"o">>) :> PyInt(-30))),
      PyDict((DnKey :> DnDcX) @@ (PyStr(<<"C", "N">>) :> ValV)),
      PyDict((DnKey :> DnDcX) @@ (PyStr(<<"C", "N">>) :> ValV) @@ (Cn :> ValZ)),
      PyDict((DnKey :> DnDcX) @@ (PyStr(<<"D", "N">>) :> ValV)),
      PyDict((DnKey :> DnDcX) @@ (Cn :> PyList(<<>>))),
      PyDict((DnKey :> DnDcX)),
      PyDict((DnKey :> PyStr(<<"x">>)) @@ (Cn :> ValV)),
      PyDict((DnKey :> DnDcX) @@ (Cn :> PyList(<<ValV, PyNone>>))),
      PyDict((DnKey :> DnDcX) @@ (Cn :> PyNone)),
      PyDict((DnKey :> PyInt(7)) @@ (Cn :> ValV)),
      PyDict((Cn :> ValV)),
      PyDict((DnKey :> DnDcX) @@ (PyInt(1) :> ValV)),
      PyInt(7) }

CodecLists(n) == {PyList(f) : f \in [1..n -> CodecRecords]}

InitCodec ==
    /\ pc = "start"
    /\ records \in UNION {CodecLists(n) : n \in 0..MaxEntries} \cup {PyNone}
    /\ ldif = Null /\ parsed = Null
    /\ value = Null /\ match = Null
    /\ rec1 = Null /\ rec2 = Null /\ mix = Null /\ r12 = Null
    /\ data = Null /\ cmat = Null /\ out = Null /\ out2 = Null

\* ldif = to_ldif(records)
ToLdif ==
    /\ pc = "start"
    /\ ldif' = to_ldif(records)
    /\ pc' = "serialized"
    /\ UNCHANGED <<value, match, rec1, rec2, mix, r12, data, cmat, out, out2,
                   records, parsed>>

\* parsed = from_ldif(ldif), when to_ldif returned a text
FromLdif ==
    /\ pc = "serialized"
    /\ ldif.err = NoError
    /\ parsed' = from_ldif(ldif.text)
    /\ pc' = "parsed"
    /\ UNCHANGED <<value, match, rec1, rec2, mix, r12, data, cmat, out, out2,
                   records, ldif>>

NextCodec == ToLdif \/ FromLdif

SpecCodec == InitCodec /\ [][NextCodec]_vars

(***************************************************************************)
(* Properties of to_ldif and from_ldif                                     *)
(***************************************************************************)

\* A value the specification of to_ldif allows: a str, an int, or a list of
\* str and int.
ValueWellFormed(v) ==
    \/ v.t \in {"str", "int"}
    \/ v.t = "list" /\ \A i \in DOMAIN v.l : v.l[i].t \in {"str", "int"}

\* A record the specification of to_ldif allows.
RecordWellFormed(r) ==
    /\ r.t = "dict"
    /\ DnKey \in DOMAIN r.d /\ r.d[DnKey].t = "str"
    /\ \A k \in DOMAIN r.d \ {DnKey} : k.t = "str" /\ ValueWellFormed(r.d[k])

AllWellFormed(d) == d.t = "list" /\ \A i \in DOMAIN d.l : RecordWellFormed(d.l[i])

\* C4 as claimed: to_ldif returns a text only when every record has a str DN,
\* str attribute names, and values that are a str, an int, or a list of str
\* and int.
C4_Original == (pc = "serialized" /\ ldif.err = NoError) => AllWellFormed(records)

\* The values of an attribute as from_ldif returns them: the list of the
\* str forms, a str or an int being a list of one.
StrForms(v) ==
    PyList(IF v.t = "list" THEN [i \in DOMAIN v.l |-> PyStr(str(v.l[i]))]
           ELSE <<PyStr(str(v))>>)

\* C5 as claimed: the record comes back with its DN and every attribute name
\* mapped to its values, integers as their str form.
ExpectedAsClaimed(r) ==
    PyDict([k \in DOMAIN r.d |-> IF k = DnKey THEN r.d[k] ELSE StrForms(r.d[k])])

C5_Original ==
    (pc = "parsed" /\ AllWellFormed(records)) =>
        /\ parsed.err = NoError
        /\ Len(parsed.lst) = Len(records.l)
        /\ \A i \in DOMAIN records.l : parsed.lst[i] = ExpectedAsClaimed(records.l[i])

\* The attribute names of the record whose value is not an empty list.
NamesWithValues(r) ==
    {k \in DOMAIN r.d \ {DnKey} : ~(r.d[k].t = "list" /\ r.d[k].l = <<>>)}

\* The DN is made of type=value pairs, and the attribute names stay distinct
\* and different from dn when lower-cased.
RoundTrips(r) ==
    /\ LET rdns == str2dn(r.d[DnKey].s)
       IN  \A i \in DOMAIN rdns : \A j \in DOMAIN rdns[i] :
               rdns[i][j][1] # <<>> /\ rdns[i][j][2] # <<>>
    /\ \A k \in DOMAIN r.d \ {DnKey} :
           /\ lower(k.s) # DnKey.s
           /\ \A k2 \in DOMAIN r.d \ {DnKey} : lower(k.s) = lower(k2.s) => k = k2

\* C5 as amended: for records with valid DNs whose attribute names stay
\* distinct and different from dn when lower-cased, from_ldif(to_ldif(records))
\* gives, in the same order, records with the original DN and, for every
\* attribute that has a value, the lower-cased name mapped to the list of the
\* str forms of its values (a str or an int comes back as a list of one); an
\* attribute whose value is the empty list does not come back.
ExpectedLowerCased(r) ==
    PyDict([k \in {DnKey} \cup {PyStr(lower(a.s)) : a \in NamesWithValues(r)} |->
               IF k = DnKey THEN r.d[DnKey]
               ELSE StrForms(r.d[CHOOSE a \in NamesWithValues(r) : lower(a.s) = k.s])])

C5_RoundTripLowerCased ==
    (/\ pc = "parsed" /\ AllWellFormed(records)
     /\ \A i \in DOMAIN records.l : RoundTrips(records.l[i])) =>
        /\ parsed.err = NoError
        /\ Len(parsed.lst) = Len(records.l)
        /\ \A i \in DOMAIN records.l : parsed.lst[i] = ExpectedLowerCased(records.l[i])

\* A record with a list of a str and an int and an int value, and a record
\* with an upper-case attribute name, have been serialized and parsed.
C5_Witness ==
    /\ pc = "parsed" /\ records.t = "list" /\ Len(records.l) = 2
    /\ AllWellFormed(records)
    /\ Cn \in DOMAIN records.l[1].d
    /\ records.l[1].d[Cn] = PyList(<<ValV, PyInt(7)>>)
    /\ PyStr(<<"C", "N">>) \in DOMAIN records.l[2].d
    /\ Cn \notin DOMAIN records.l[2].d
    /\ parsed.err = NoError /\ Len(parsed.lst) = 2
    /\ Cn \in DOMAIN parsed.lst[1].d
    /\ parsed.lst[1].d[Cn] = PyList(<<ValV, PyStr(<<"7">>)>>)
    /\ Cn \in DOMAIN parsed.lst[2].d
    /\ parsed.lst[2].d[Cn].l[1] = ValV

====
